---- MODULE Spec2Model ----
(***************************************************************************)
(* Property aggregation service: the endpoint property_view, the           *)
(* PropertyAggregator.fetch_all loop over the configured providers and the *)
(* PropertyStandardizer mappings of the two provider response shapes.      *)
(*                                                                         *)
(* Python values are tagged records: None, bool, number, str, list, dict.  *)
(* A number is n / 10^scale with scale 0 (an integer) or 2 (hundredths,    *)
(* the shape round(x, 2) returns and the shape of an acreage like 0.33).   *)
(***************************************************************************)
EXTENDS Integers, Sequences, FiniteSets, TLC

\* ------------------------------------------------------------------ bounds
\* Largest lotSizeSqFt drawn in the standardizer specification.
MaxSqFt == 22000
\* Largest number of providers an aggregator is configured with.
MaxProviders == 2

\* ---------------------------------------------------------- Python values
None == [t |-> "null"]
Bool(b) == [t |-> "bool", b |-> b]
Num(n) == [t |-> "num", n |-> n, scale |-> 0]
Hundredths(h) == [t |-> "num", n |-> h, scale |-> 2]
Str(s) == [t |-> "str", s |-> s]
List == [t |-> "list"]
Dict(f) == [t |-> "dict", o |-> f]

EmptyDict == Dict(<<>>)
IsDict(v) == v.t = "dict"
Keys(v) == DOMAIN v.o

\* The type name Python prints in its error messages.
TypeName(v) ==
  CASE v.t = "null" -> "NoneType"
    [] v.t = "bool" -> "bool"
    [] v.t = "num" -> (IF v.scale = 0 THEN "int" ELSE "float")
    [] v.t = "str" -> "str"
    [] v.t = "list" -> "list"
    [] OTHER -> "dict"

\* The outcome of evaluating an expression: a value, or an exception raised.
Value(v) == [ok |-> TRUE, value |-> v]
Raise(cls, msg) == [ok |-> FALSE, exc |-> cls, msg |-> msg]

\* d.get(key, default): only a dict has the method. A key that is present
\* yields its value, also when that value is None.
Get(d, key, default) ==
  IF ~IsDict(d)
  THEN Raise("AttributeError",
             "'" \o TypeName(d) \o "' object has no attribute 'get'")
  ELSE Value(IF key \in Keys(d) THEN d.o[key] ELSE default)

\* ------------------------------------------------- _convert_sqft_to_acres
SqFtPerAcre == 43560

RECURSIVE Pow2Mod(_, _)
Pow2Mod(e, m) == IF e = 0 THEN 1 % m ELSE (2 * Pow2Mod(e - 1, m)) % m

\* Least j >= 0 with n * 2^j >= d, for 0 < n < d.
RECURSIVE ShiftUp(_, _)
ShiftUp(n, d) == IF n >= d THEN 0 ELSE 1 + ShiftUp(2 * n, d)

\* Greatest j >= 0 with d * 2^j <= n, for n >= d.
RECURSIVE ShiftDown(_, _)
ShiftDown(n, d) == IF n < 2 * d THEN 0 ELSE 1 + ShiftDown(n, 2 * d)

\* sqft / 43560 is a float division: the quotient is the double nearest to
\* n / d, a 53-bit mantissa M = round(n * 2^e / d) with 2^52 <= M < 2^53.
\* FloatDivError is the sign of that double minus the exact quotient, read
\* off the remainder of n * 2^e modulo d. (A remainder of exactly d / 2
\* needs e < 3, since 8 divides d and not d / 2: a quotient of 2^49 or more.)
FloatDivError(n, d) ==
  IF n = 0 THEN 0
  ELSE LET e == IF n >= d THEN 52 - ShiftDown(n, d) ELSE 52 + ShiftUp(n, d)
           r == ((n % d) * Pow2Mod(e, d)) % d
       IN  IF r = 0 THEN 0 ELSE IF 2 * r > d THEN 1 ELSE -1

\* A conversion that cuts the quotient off after 2 decimals.
TruncateQuotient(n, d) == (100 * n) \div d

\* round(x, 2) rounds the double x correctly to 2 decimals, a tie of the
\* double itself going to the even digit. The result is in hundredths.
RoundQuotient(n, d) ==
  LET h == (100 * n) \div d
      rem == 100 * n - h * d
      err == FloatDivError(n, d)
  IN  IF 2 * rem < d THEN h
      ELSE IF 2 * rem > d THEN h + 1
      ELSE IF err < 0 THEN h
      ELSE IF err > 0 THEN h + 1
      ELSE IF h % 2 = 0 THEN h ELSE h + 1

\* standardizer.py:84-98. A bool divides as 0 or 1; anything that is neither
\* None nor a number makes the division raise TypeError.
convert_sqft_to_acres(sqft) ==
  IF sqft = None THEN Value(None)
  ELSE IF sqft.t = "num" /\ sqft.scale = 0
       THEN Value(Hundredths(RoundQuotient(sqft.n, SqFtPerAcre)))
  ELSE IF sqft.t = "bool"
       THEN Value(Hundredths(RoundQuotient(IF sqft.b THEN 1 ELSE 0, SqFtPerAcre)))
  ELSE Raise("TypeError",
             "unsupported operand type(s) for /: '" \o TypeName(sqft)
               \o "' and 'int'")

\* ------------------------------------------------------------ standardizer
\* d.get(key) on a value already known to be a dict.
Field(d, key) == Get(d, key, None).value

\* The fixed schema of a standardized record.
Schema == {"address", "squareFootage", "lotSize", "yearBuilt", "propertyType",
           "bedrooms", "bathrooms", "roomCount", "septicSystem", "salePrice",
           "cached"}
DataFields == Schema \ {"cached"}

\* standardizer.py:23-52. The dict display is evaluated top to bottom, so
\* the lot-size division raises before features.get does.
standardize_provider1(raw_data) ==
  LET data == Get(raw_data, "data", EmptyDict)
  IN  IF ~data.ok THEN data
      ELSE
  LET features == Get(data.value, "features", EmptyDict)
  IN  IF ~features.ok THEN features
      ELSE
  LET lotSize == convert_sqft_to_acres(Field(data.value, "lotSizeSqFt"))
      roomCount == Get(features.value, "roomCount", None)
  IN  IF ~lotSize.ok THEN lotSize
      ELSE IF ~roomCount.ok THEN roomCount
      ELSE Value(Dict([
        address |-> Field(data.value, "formattedAddress"),
        squareFootage |-> Field(data.value, "squareFootage"),
        lotSize |-> lotSize.value,
        yearBuilt |-> Field(data.value, "yearBuilt"),
        propertyType |-> Field(data.value, "propertyType"),
        bedrooms |-> Field(data.value, "bedrooms"),
        bathrooms |-> Field(data.value, "bathrooms"),
        roomCount |-> roomCount.value,
        septicSystem |-> Field(features.value, "septicSystem"),
        salePrice |-> Field(data.value, "lastSalePrice"),
        cached |-> Get(raw_data, "cached", Bool(FALSE)).value]))

\* standardizer.py:55-81
standardize_provider2(raw_data) ==
  LET data == Get(raw_data, "data", EmptyDict)
  IN  IF ~data.ok THEN data
      ELSE
  LET address == Get(data.value, "NormalizedAddress", None)
  IN  IF ~address.ok THEN address
      ELSE Value(Dict([
        address |-> address.value,
        squareFootage |-> Field(data.value, "SquareFootage"),
        lotSize |-> Field(data.value, "LotSizeAcres"),
        yearBuilt |-> Field(data.value, "YearConstructed"),
        propertyType |-> Field(data.value, "PropertyType"),
        bedrooms |-> Field(data.value, "Bedrooms"),
        bathrooms |-> Field(data.value, "Bathrooms"),
        roomCount |-> Field(data.value, "RoomCount"),
        septicSystem |-> Field(data.value, "SepticSystem"),
        salePrice |-> Field(data.value, "SalePrice"),
        cached |-> Get(raw_data, "cached", Bool(FALSE)).value]))

\* Where each standardizer reads a data field from: the path of keys below
\* the document's "data" object.
SourcePath1(field) ==
  CASE field = "address" -> <<"formattedAddress">>
    [] field = "lotSize" -> <<"lotSizeSqFt">>
    [] field = "roomCount" -> <<"features", "roomCount">>
    [] field = "septicSystem" -> <<"features", "septicSystem">>
    [] field = "salePrice" -> <<"lastSalePrice">>
    [] OTHER -> <<field>>

SourcePath2(field) ==
  CASE field = "address" -> <<"NormalizedAddress">>
    [] field = "squareFootage" -> <<"SquareFootage">>
    [] field = "lotSize" -> <<"LotSizeAcres">>
    [] field = "yearBuilt" -> <<"YearConstructed">>
    [] field = "propertyType" -> <<"PropertyType">>
    [] field = "bedrooms" -> <<"Bedrooms">>
    [] field = "bathrooms" -> <<"Bathrooms">>
    [] field = "roomCount" -> <<"RoomCount">>
    [] field = "septicSystem" -> <<"SepticSystem">>
    [] OTHER -> <<"SalePrice">>

\* ------------------------------------------------- raw provider documents
Restrict(f, K) == [k \in K |-> f[k]]

\* Subsets of S that leave out at most MaxMissing of its elements.
MaxMissing == 1
NearlyAll(S) == {S \ M : M \in {X \in SUBSET S : Cardinality(X) <= MaxMissing}}

FullFeatures == [roomCount |-> Num(7), septicSystem |-> Bool(TRUE),
                 pool |-> Bool(FALSE)]
FeatureValues ==
  {None} \cup {Dict(Restrict(FullFeatures, K)) : K \in SUBSET DOMAIN FullFeatures}
LotValues == {Num(21780), None, Str("n/a")}

FullData1(lot, features) ==
  [formattedAddress |-> Str("123 Main St, Boston, MA 02101"),
   squareFootage |-> Num(1500), lotSizeSqFt |-> lot, yearBuilt |-> Num(1990),
   propertyType |-> Str("Single Family"), bedrooms |-> Num(3),
   bathrooms |-> Num(2), features |-> features,
   lastSalePrice |-> Num(450000), zoning |-> Str("R1")]

FullData2 ==
  [NormalizedAddress |-> Str("123 Main St, Boston, MA 02101"),
   SquareFootage |-> Num(1500), LotSizeAcres |-> Hundredths(33),
   YearConstructed |-> Num(1990), PropertyType |-> Str("Single Family"),
   Bedrooms |-> Num(3), Bathrooms |-> Num(2), RoomCount |-> Num(7),
   SepticSystem |-> Bool(TRUE), SalePrice |-> Num(450000),
   Coordinates |-> List]

DataValues1 ==
  {Dict(Restrict(FullData1(lot, features), K)) :
     lot \in LotValues, features \in FeatureValues,
     K \in NearlyAll(DOMAIN FullData1(None, None))}
DataValues2 == {Dict(Restrict(FullData2, K)) : K \in NearlyAll(DOMAIN FullData2)}
DataValues ==
  {None, List, Str("not found"), EmptyDict} \cup DataValues1 \cup DataValues2

\* The envelope: "data", "cached" and a key no standardizer reads, each
\* present or absent.
Envelopes ==
  {Dict(Restrict([data |-> d, cached |-> Bool(TRUE), requestId |-> Str("r-1")], K)) :
     d \in DataValues, K \in SUBSET {"data", "cached", "requestId"}}

\* Documents that carry nothing but a lot size in square feet.
LotDocs == {Dict([data |-> Dict([lotSizeSqFt |-> Num(n)])]) : n \in 0..MaxSqFt}

\* json.loads returns whatever the body holds: not always a dict.
RawDocs == {None, List, Str("Not Found")} \cup Envelopes \cup LotDocs

\* -------------------------------------------------------------- providers
\* get_provider_name of each provider an aggregator may be configured with:
\* Provider1, Provider2, and further BaseProvider subclasses, so that a list
\* of any length can hold a provider the dispatch does not know.
ProviderNames == {"Provider " \o ToString(i) : i \in 1..(MaxProviders + 1)}

\* provider1.py:51-61, provider2.py:51-61: every failure of the request
\* leaves get_property_details as an Exception carrying one of four texts.
Failures(name) ==
  {Raise("Exception", name \o " API error (HTTP 404): Not Found"),
   Raise("Exception", name \o " network error: timed out"),
   Raise("Exception",
         name \o " invalid JSON response: Expecting value: line 1 column 1 (char 0)"),
   Raise("Exception", name \o " unexpected error: Remote end closed connection")}

\* The bodies a provider answers with in the aggregator specification.
SampleDocs ==
  {Dict([data |-> Dict(FullData1(Num(21780), Dict(FullFeatures))),
         cached |-> Bool(TRUE)]),
   Dict([data |-> Dict(FullData2)]),
   Dict([data |-> None])}

\* provider1.py:25-61: the parsed body, or an Exception.
get_property_details(name) == {Value(d) : d \in SampleDocs} \cup Failures(name)

\* ------------------------------------------------------------- aggregator
\* aggregator.py:76-89
ErrorPlaceholder(message) ==
  Dict([error |-> Str(message), address |-> None, squareFootage |-> None,
        lotSize |-> None, yearBuilt |-> None, propertyType |-> None,
        bedrooms |-> None, bathrooms |-> None, roomCount |-> None,
        septicSystem |-> None, salePrice |-> None, cached |-> Bool(FALSE)])

\* A dispatch whose first comparison misspells the display name.
StandardizeMisspelt(provider_name, raw_data) ==
  IF provider_name = "Provider1" THEN standardize_provider1(raw_data)
  ELSE IF provider_name = "Provider 2" THEN standardize_provider2(raw_data)
  ELSE Value(raw_data)

\* A dispatch that maps an unknown provider as if it were Provider 1.
StandardizeDefault1(provider_name, raw_data) ==
  IF provider_name = "Provider 2" THEN standardize_provider2(raw_data)
  ELSE standardize_provider1(raw_data)

\* aggregator.py:63-70: dispatch on the display name.
Standardize(provider_name, raw_data) ==
  IF provider_name = "Provider 1" THEN standardize_provider1(raw_data)
  ELSE IF provider_name = "Provider 2" THEN standardize_provider2(raw_data)
  ELSE Value(raw_data)

\* The classes `except Exception` catches.
ExceptionClasses == {"Exception", "AttributeError", "TypeError"}

\* A loop body without the try/except: a provider's failure leaves fetch_all.
EntryNoCatch(provider_name, fetched) ==
  IF fetched.ok THEN Standardize(provider_name, fetched.value)
  ELSE fetched

\* aggregator.py:59-89: the body of the loop for one provider, given what
\* get_property_details did. Value(entry) is what is stored under the
\* provider's name; a Raise is an exception that leaves fetch_all.
Entry(provider_name, fetched) ==
  LET standardized == IF fetched.ok
                      THEN Standardize(provider_name, fetched.value)
                      ELSE fetched
  IN  IF standardized.ok THEN standardized
      ELSE IF standardized.exc \in ExceptionClasses
           THEN Value(ErrorPlaceholder(standardized.msg))
      ELSE standardized

\* A store that leaves failed providers out of the mapping.
StoreUnlessError(res, provider_name, entry) ==
  IF IsDict(entry) /\ "error" \in Keys(entry) THEN res
  ELSE [k \in DOMAIN res \cup {provider_name} |->
          IF k = provider_name THEN entry ELSE res[k]]

\* A store that rebinds the mapping instead of adding to it.
StoreClobber(res, provider_name, entry) ==
  [k \in {provider_name} |-> entry]

\* aggregator.py:72, 76: results[provider_name] = entry
Store(res, provider_name, entry) ==
  [k \in DOMAIN res \cup {provider_name} |->
     IF k = provider_name THEN entry ELSE res[k]]

\* aggregator.py:54-93 as one function of the provider list and of what each
\* provider's get_property_details does.
RECURSIVE FetchAllFrom(_, _, _)
FetchAllFrom(res, provs, fetched) ==
  IF provs = <<>> THEN Value(Dict([providers |-> Dict(res)]))
  ELSE LET entry == Entry(Head(provs), fetched[Head(provs)])
       IN  IF entry.ok
           THEN FetchAllFrom(Store(res, Head(provs), entry.value), Tail(provs), fetched)
           ELSE entry

\* The provider lists an aggregator is built with: display names are unique.
Configs ==
  {c \in UNION {[1..n -> ProviderNames] : n \in 0..MaxProviders} :
     \A i, j \in DOMAIN c : i # j => c[i] # c[j]}

\* views.py:60-64
ViewConfig == <<"Provider 1", "Provider 2">>

\* A check that only catches the absent parameter.
IsNoneOnly(v) == v = None

\* views.py:37: `not address`
Falsy(v) == v = None \/ v = Str("")

Addresses == {Str(""), Str("123 Main St, Boston, MA 02101")}

VARIABLES raw, provider, out,
          pc, caller, request, constructed, providers, address, idx,
          fetched, results, calls, returned, response

stdvars == <<raw, provider, out>>
aggvars == <<pc, caller, request, constructed, providers, address, idx,
             fetched, results, calls, returned, response>>
vars == <<stdvars, aggvars>>

NoResponse == [status |-> 0, body |-> None]
JsonResponse(body, status) == [status |-> status, body |-> body]

AggIdle ==
  /\ pc = "idle" /\ caller = "none" /\ request = None /\ constructed = {}
  /\ providers = <<>> /\ address = None /\ idx = 1 /\ fetched = <<>>
  /\ results = <<>> /\ calls = [n \in ProviderNames |-> 0]
  /\ returned = None /\ response = NoResponse

StdIdle == raw = None /\ provider = "" /\ out = None

\* ------------------------------------------------ standardizer, on its own
\* One document, standardized once under one provider's display name. The
\* lot-size documents are in Provider 1's shape and go to Provider 1.
StdInit ==
  /\ \/ raw \in LotDocs /\ provider = "Provider 1"
     \/ raw \in RawDocs \ LotDocs /\ provider \in ProviderNames
  /\ out = None
  /\ AggIdle

\* aggregator.py:63-70 applied to the document.
StandardizeDoc ==
  /\ out = None
  /\ out' = Standardize(provider, raw)
  /\ UNCHANGED <<raw, provider, aggvars>>

StdNext == StandardizeDoc
SpecStd == StdInit /\ [][StdNext]_vars

\* ------------------------------------------------- endpoint and aggregator
Init == StdIdle /\ AggIdle

\* PropertyAggregator(providers).fetch_all(address) up to the loop
\* (aggregator.py:24-32, 54).
StartFetch(who, config, addr) ==
  /\ pc' = "fetching" /\ caller' = who
  /\ constructed' = {config[i] : i \in DOMAIN config}
  /\ providers' = config /\ address' = addr /\ idx' = 1
  /\ results' = <<>>
  /\ UNCHANGED <<fetched, calls, returned, response>>

\* views.py:35-38
ViewReject ==
  /\ pc = "idle"
  /\ \E a \in {None} \cup Addresses :
    /\ Falsy(a)
    /\ request' = a
    /\ response' = JsonResponse(Dict([error |-> Str("Address is required")]), 400)
    /\ pc' = "responded" /\ caller' = "view"
    /\ UNCHANGED <<constructed, providers, address, idx, fetched, results,
                   calls, returned, stdvars>>

\* views.py:35-68
ViewAccept ==
  /\ pc = "idle"
  /\ \E a \in {None} \cup Addresses :
    /\ ~Falsy(a)
    /\ request' = a
    /\ StartFetch("view", ViewConfig, a)
    /\ UNCHANGED stdvars

\* fetch_all called on an aggregator by any other caller.
DirectCall ==
  /\ pc = "idle"
  /\ \E config \in Configs, a \in Addresses :
    /\ StartFetch("direct", config, a)
    /\ UNCHANGED <<request, stdvars>>

\* aggregator.py:56-89: one pass of the loop.
FetchProvider ==
  /\ pc = "fetching" /\ idx <= Len(providers)
  /\ LET provider_name == providers[idx]
     IN  \E f \in get_property_details(provider_name) :
           LET entry == Entry(provider_name, f)
           IN  /\ calls' = [calls EXCEPT ![provider_name] = @ + 1]
               /\ fetched' = (provider_name :> f) @@ fetched
               /\ IF entry.ok
                  THEN /\ results' = Store(results, provider_name, entry.value)
                       /\ idx' = idx + 1
                       /\ UNCHANGED <<pc, returned>>
                  ELSE /\ pc' = "raised" /\ returned' = entry
                       /\ UNCHANGED <<results, idx>>
  /\ UNCHANGED <<caller, request, constructed, providers, address, response,
                 stdvars>>

\* aggregator.py:91-93
FetchReturn ==
  /\ pc = "fetching" /\ idx > Len(providers)
  /\ pc' = "returned"
  /\ returned' = Value(Dict([providers |-> Dict(results)]))
  /\ UNCHANGED <<caller, request, constructed, providers, address, idx,
                 fetched, results, calls, response, stdvars>>

\* views.py:67-74
ViewRespond ==
  /\ caller = "view" /\ pc \in {"returned", "raised"}
  /\ response' =
       IF returned.ok THEN JsonResponse(returned.value, 200)
       ELSE JsonResponse(
              Dict([error |-> Str("Failed to fetch property details: "
                                    \o returned.msg)]), 500)
  /\ pc' = "responded"
  /\ UNCHANGED <<caller, request, constructed, providers, address, idx,
                 fetched, results, calls, returned, stdvars>>

Next == ViewReject \/ ViewAccept \/ DirectCall \/ FetchProvider
          \/ FetchReturn \/ ViewRespond

Spec == Init /\ [][Next]_vars
\* ================================================================= claims
Configured == {providers[i] : i \in DOMAIN providers}
KnownNames == {"Provider 1", "Provider 2"}

\* C1: failure isolation. Whatever each provider does, fetch_all never
\* raises (so the endpoint never answers 500), the providers before the
\* loop position have each been asked exactly once and the others not yet,
\* and fetch_all returns only after every configured provider was asked.
FailureIsolation ==
  /\ pc # "raised"
  /\ response.status # 500
  /\ \A i \in DOMAIN providers :
       calls[providers[i]] = IF i < idx THEN 1 ELSE 0
  /\ \A n \in ProviderNames \ Configured : calls[n] = 0
  /\ pc = "returned" =>
       /\ returned.ok
       /\ \A n \in Configured : calls[n] = 1

\* A first provider that failed, a later one asked all the same, and
\* fetch_all returned.
FailureIsolationWitness ==
  /\ pc = "returned" /\ Len(providers) >= 2
  /\ ~fetched[providers[1]].ok
  /\ calls[providers[2]] = 1
  /\ fetched[providers[2]].ok

\* C2: cardinality. What fetch_all returns holds under "providers" exactly
\* one entry per configured provider, keyed by display name.
CardinalityInvariant ==
  pc = "returned" =>
    /\ returned.ok
    /\ Keys(returned.value) = {"providers"}
    /\ Keys(returned.value.o.providers) = Configured
    /\ Cardinality(Keys(returned.value.o.providers)) = Len(providers)

\* Every configured provider failed and the mapping still has all of them.
CardinalityWitness ==
  /\ pc = "returned" /\ Len(providers) >= 2
  /\ \A n \in Configured : ~fetched[n].ok
  /\ Keys(returned.value.o.providers) = Configured

\* C3: entry content. After fetch_all, the entry of Provider 1 or Provider 2
\* is the standardized record of its raw response when its fetch succeeded,
\* and the error placeholder carrying the failure's text when it failed.
EntryContent ==
  pc = "returned" =>
    \A n \in Configured \cap KnownNames :
      IF fetched[n].ok
      THEN /\ Standardize(n, fetched[n].value).ok
           /\ results[n] = Standardize(n, fetched[n].value).value
           /\ Keys(results[n]) = Schema
      ELSE results[n] = ErrorPlaceholder(fetched[n].msg)

\* C4: an absent or empty address parameter is answered 400 with the fixed
\* body, and no provider has been constructed or asked.
RejectsMissingAddress ==
  (caller = "view" /\ request \in {None, Str("")}) =>
    /\ pc = "responded"
    /\ response = JsonResponse(Dict([error |-> Str("Address is required")]), 400)
    /\ constructed = {}
    /\ \A n \in ProviderNames : calls[n] = 0

\* The empty address parameter was answered.
RejectsMissingAddressWitness ==
  /\ caller = "view" /\ request = Str("") /\ response.status = 400

\* Whether the document holds the keys of `path`, one inside the other.
RECURSIVE HasPath(_, _)
HasPath(v, path) ==
  \/ path = <<>>
  \/ /\ IsDict(v) /\ Head(path) \in Keys(v)
     /\ HasPath(v.o[Head(path)], Tail(path))

SourcePath(name, field) ==
  <<"data">> \o (IF name = "Provider 1" THEN SourcePath1(field)
                 ELSE SourcePath2(field))

\* C5: the standardizers are total. For every raw key-value document,
\* standardizing as Provider 1 or Provider 2 returns a record, in which
\* every data field whose source key is missing is null.
StandardizerTotal ==
  (out # None /\ provider \in KnownNames /\ IsDict(raw)) =>
    /\ out.ok
    /\ \A field \in DataFields :
         ~HasPath(raw, SourcePath(provider, field)) => out.value.o[field] = None

SchemaStrictSubset ==
  (out # None /\ provider \in KnownNames /\ out.ok) =>
    /\ Keys(out.value) \subseteq Schema
    /\ Keys(out.value) # Schema

\* C7 as amended: the key set of every standardized record is the 11-field
\* schema itself, whatever further keys the raw document holds at the top
\* level, under "data" or under "features".
SchemaClosure ==
  (out # None /\ provider \in KnownNames /\ out.ok) =>
    /\ Keys(out.value) = Schema
    /\ Cardinality(Keys(out.value)) = 11

\* A Provider 1 document with a further key at each level was standardized.
SchemaClosureWitness ==
  /\ out # None /\ provider = "Provider 1" /\ out.ok
  /\ HasPath(raw, <<"requestId">>)
  /\ HasPath(raw, <<"data", "zoning">>)
  /\ HasPath(raw, <<"data", "features", "pool">>)

\* The orders a provider list can be fetched in.
Orders(provs) ==
  {p \in [DOMAIN provs -> Configured] :
     \A i, j \in DOMAIN p : i # j => p[i] # p[j]}

\* C8: order independence. With what each provider did held fixed, fetching
\* the providers in any order returns the mapping fetch_all returned.
OrderIndependence ==
  pc = "returned" =>
    \A p \in Orders(providers) : FetchAllFrom(<<>>, p, fetched) = returned

\* Provider 2 was fetched before Provider 1, one of them failing.
OrderIndependenceWitness ==
  /\ pc = "returned" /\ Len(providers) >= 2
  /\ providers[1] = "Provider 2" /\ providers[2] = "Provider 1"
  /\ ~fetched["Provider 2"].ok /\ fetched["Provider 1"].ok

\* C9: fetch_all called with an empty address asks no provider and returns
\* no mapping.
EmptyAddressRejected ==
  (caller = "direct" /\ address = Str("")) =>
    /\ \A n \in ProviderNames : calls[n] = 0
    /\ pc # "returned"

\* C10: fallback passthrough. The entry of a provider whose display name is
\* neither "Provider 1" nor "Provider 2" and whose fetch succeeded is the
\* raw document itself.
FallbackPassthrough ==
  \A n \in DOMAIN results \ KnownNames :
    fetched[n].ok => results[n] = fetched[n].value

\* An unknown provider's document that Provider 1 could not have mapped is
\* in the returned mapping as it came.
FallbackPassthroughWitness ==
  /\ pc = "returned" /\ "Provider 3" \in Configured
  /\ fetched["Provider 3"] = Value(Dict([data |-> None]))
  /\ returned.value.o.providers.o["Provider 3"] = Dict([data |-> None])
====
